---- MODULE Spec2Model ----
(***************************************************************************)
(* Model of the wallpaper launch orchestrator (src/src/main.rs) and of the *)
(* compatibility-tool resolver (src/src/compat.rs).                        *)
(*                                                                         *)
(* The orchestrator is one sequential thread (main); the platform client,  *)
(* the renderer processes and their windows are external and change on     *)
(* their own.  `trace` is the ordered log of what main did to the outside  *)
(* world: commands it invoked and polls whose result steered it.           *)
(***************************************************************************)
EXTENDS Integers, Sequences, FiniteSets, TLC

\* ---------------------------------------------------------------- bounds
MaxItems == 2
MaxStopPolls == 2
MaxIndex == 12

\* ---------------------------------------------------------------- inputs
Names == {"Proton 10.0", "GE-Proton7-55"}
Archs == {"64", "32", "arm"}
\* the external binaries looked up with which()
Bins == {"steam", "pgrep", "magick", "chafa", "xdotool"}
NoTool == [name |-> "", path |-> <<"", "">>, builtin |-> FALSE, some |-> FALSE]

VARIABLES
    args,       \* Args: proton_version, arch, number of wallpaper ids
    commonDirs, \* folder names present under steamapps/common
    dDirs,      \* folder names present under compatibilitytools.d
    missing,    \* binaries that which() cannot find on the system path
    exes,       \* architectures whose wallpaper<arch>.exe exists
    sc,         \* the resolved SteamCompat (NoTool before/without resolution)
    steamUp,    \* a steamwebhelper window exists
    we32,       \* a wallpaper32.exe process exists
    we64,       \* a wallpaper64.exe process exists
    windows,    \* item indices whose "Wallpaper #i" window exists
    pc,         \* position of main
    i,          \* index of the for loop over wallpaper_ids
    stopPolls,  \* iterations of the stop loop that found the renderer
    envSet,     \* the three Proton environment variables are set
    printed,    \* the internal name printed on stdout (main.rs:226)
    boundId,    \* the identifier passed to +app_change_compat_tool
    diag,       \* number of fallback diagnostics written to stderr
    trace,      \* commands invoked and steering polls, in order
    err,        \* what was reported on stderr ([kind, detail])
    exitCode    \* process exit status, -1 while running

vars == <<args, commonDirs, dDirs, missing, exes, sc, steamUp, we32, we64,
          windows, pc, i, stopPolls, envSet, printed, boundId, diag, trace,
          err, exitCode>>

cfgVars == <<args, commonDirs, dDirs, missing, exes>>
extVars == <<steamUp, we32, we64, windows>>
idVars == <<printed, boundId, diag>>

NoErr == [kind |-> "none", detail |-> ""]

\* One entry of the trace.
Ev(op, item, det, ok) ==
    [op |-> op, item |-> item, det |-> det, ok |-> ok]

Cmd(op, item, ok) == Ev(op, item, FALSE, ok)

\* ------------------------------------------------------------ characters
\* A String is handled as the sequence of its characters.
Upper == {"A", "B", "C", "D", "E", "F", "G", "H", "I", "J", "K", "L", "M", "N",
    "O", "P", "Q", "R", "S", "T", "U", "V", "W", "X", "Y", "Z"}
Lower == {"a", "b", "c", "d", "e", "f", "g", "h", "i", "j", "k", "l", "m", "n",
    "o", "p", "q", "r", "s", "t", "u", "v", "w", "x", "y", "z"}
Digit == {"0", "1", "2", "3", "4", "5", "6", "7", "8", "9"}
UpperSeq == <<"A", "B", "C", "D", "E", "F", "G", "H", "I", "J", "K", "L", "M",
    "N", "O", "P", "Q", "R", "S", "T", "U", "V", "W", "X", "Y", "Z">>
LowerSeq == <<"a", "b", "c", "d", "e", "f", "g", "h", "i", "j", "k", "l", "m",
    "n", "o", "p", "q", "r", "s", "t", "u", "v", "w", "x", "y", "z">>

\* char::to_lowercase on the characters that occur
to_lowercase(c) ==
    IF c \in Upper
    THEN LowerSeq[CHOOSE k \in 1..26 : UpperSeq[k] = c]
    ELSE c

\* the display names a user may pass as --proton-version
AllNames == {"Proton 10.0", "Proton 9.0 (Beta)", "Proton 4.11",
    "Proton Experimental", "GE-Proton7-55", "SteamLinuxRuntime"}

\* the characters of a display name
Chars(name) ==
    CASE name = "Proton 10.0" ->
           <<"P", "r", "o", "t", "o", "n", " ", "1", "0", ".", "0">>
      [] name = "Proton 9.0 (Beta)" ->
           <<"P", "r", "o", "t", "o", "n", " ", "9", ".", "0", " ", "(", "B",
               "e", "t", "a", ")">>
      [] name = "Proton 4.11" ->
           <<"P", "r", "o", "t", "o", "n", " ", "4", ".", "1", "1">>
      [] name = "Proton Experimental" ->
           <<"P", "r", "o", "t", "o", "n", " ", "E", "x", "p", "e", "r", "i",
               "m", "e", "n", "t", "a", "l">>
      [] name = "GE-Proton7-55" ->
           <<"G", "E", "-", "P", "r", "o", "t", "o", "n", "7", "-", "5", "5">>
      [] name = "SteamLinuxRuntime" ->
           <<"S", "t", "e", "a", "m", "L", "i", "n", "u", "x", "R", "u", "n",
               "t", "i", "m", "e">>

\* ------------------------------------------------------------- compat.rs
\* from_name with the (true, true) arm pointing at the vendor directory
from_name_vendor_wins(name, common, d) ==
    LET c == name \in common
        u == name \in d
    IN  CASE c        -> [name |-> name, path |-> <<"common", name>>,
                          builtin |-> TRUE, some |-> TRUE]
          [] ~c /\ u  -> [name |-> name, path |-> <<"compatibilitytools.d", name>>,
                          builtin |-> FALSE, some |-> TRUE]
          [] OTHER    -> NoTool

\* from_name that falls back to the vendor directory instead of None
from_name_default(name, common, d) ==
    LET u == name \in d
    IN  IF u
        THEN [name |-> name, path |-> <<"compatibilitytools.d", name>>,
              builtin |-> FALSE, some |-> TRUE]
        ELSE [name |-> name, path |-> <<"common", name>>,
              builtin |-> TRUE, some |-> TRUE]

\* SteamCompat::from_name: match (common_dir.exists(), d_dir.exists())
from_name(name, common, d) ==
    LET c == name \in common
        u == name \in d
    IN  CASE c /\ u   -> [name |-> name, path |-> <<"compatibilitytools.d", name>>,
                          builtin |-> FALSE, some |-> TRUE]
          [] c /\ ~u  -> [name |-> name, path |-> <<"common", name>>,
                          builtin |-> TRUE, some |-> TRUE]
          [] ~c /\ u  -> [name |-> name, path |-> <<"compatibilitytools.d", name>>,
                          builtin |-> FALSE, some |-> TRUE]
          [] OTHER    -> NoTool

\* heck's ToSnakeCase (called at compat.rs:34).  The text is first split at
\* every character that is not alphanumeric ...
RECURSIVE SplitWords(_, _, _)
SplitWords(cs, cur, acc) ==
    IF cs = <<>>
    THEN Append(acc, cur)
    ELSE IF Head(cs) \in (Upper \cup Lower \cup Digit)
         THEN SplitWords(Tail(cs), Append(cur, Head(cs)), acc)
         ELSE SplitWords(Tail(cs), <<>>, Append(acc, cur))

\* ... then each piece is cut where a lowercase character is followed by an
\* uppercase one, and before the last uppercase character of an uppercase
\* run that is followed by a lowercase one.  mode: "B" no cased character
\* yet in the current word, "L" / "U" the last cased one was lower / upper.
RECURSIVE CaseWords(_, _, _, _, _)
CaseWords(w, idx, init, mode, acc) ==
    IF idx > Len(w)
    THEN acc
    ELSE IF idx = Len(w)
    THEN Append(acc, SubSeq(w, init, Len(w)))
    ELSE LET c         == w[idx]
             next      == w[idx + 1]
             next_mode == IF c \in Lower THEN "L"
                          ELSE IF c \in Upper THEN "U" ELSE mode
         IN  IF next_mode = "L" /\ next \in Upper
             THEN CaseWords(w, idx + 1, idx + 1, "B",
                            Append(acc, SubSeq(w, init, idx)))
             ELSE IF mode = "U" /\ c \in Upper /\ next \in Lower
             THEN CaseWords(w, idx + 1, idx, "B",
                            Append(acc, SubSeq(w, init, idx - 1)))
             ELSE CaseWords(w, idx + 1, init, next_mode, acc)

RECURSIVE Flatten(_)
Flatten(ws) ==
    IF ws = <<>> THEN <<>>
    ELSE CaseWords(Head(ws), 1, 1, "B", <<>>) \o Flatten(Tail(ws))

\* the words in lower case, joined by "_"
RECURSIVE JoinLower(_)
JoinLower(ws) ==
    IF ws = <<>> THEN <<>>
    ELSE LET w == [k \in 1..Len(Head(ws)) |-> to_lowercase(Head(ws)[k])]
         IN  IF Tail(ws) = <<>> THEN w ELSE w \o <<"_">> \o JoinLower(Tail(ws))

to_snake_case(cs) == JoinLower(Flatten(SplitWords(cs, <<>>, <<>>)))

StartsWith(cs, pre) ==
    Len(cs) >= Len(pre) /\ SubSeq(cs, 1, Len(pre)) = pre

RECURSIVE TakeWhile(_, _)
TakeWhile(cs, set) ==
    IF cs # <<>> /\ Head(cs) \in set
    THEN <<Head(cs)>> \o TakeWhile(Tail(cs), set)
    ELSE <<>>

ProtonPrefix == <<"p", "r", "o", "t", "o", "n", "_">>
NoMatch == [matched |-> FALSE, name |-> <<>>]

\* The `name` capture of internal.pom applied to the snake-cased text:
\* "proton_" followed by a word, or by a major number and, when it is not
\* 0, "_" and the minor number; anything after that is left out.
Captures(snake) ==
    IF ~StartsWith(snake, ProtonPrefix)
    THEN NoMatch
    ELSE LET rest  == SubSeq(snake, Len(ProtonPrefix) + 1, Len(snake))
             word  == TakeWhile(rest, Lower)
             major == TakeWhile(rest, Digit)
             after == SubSeq(rest, Len(major) + 1, Len(rest))
             minor == IF after # <<>> /\ Head(after) = "_"
                      THEN TakeWhile(Tail(after), Digit)
                      ELSE <<>>
         IN  IF word # <<>>
             THEN [matched |-> TRUE, name |-> ProtonPrefix \o word]
             ELSE IF major = <<>>
             THEN NoMatch
             ELSE IF minor # <<>> /\ minor # <<"0">>
             THEN [matched |-> TRUE,
                   name |-> ProtonPrefix \o major \o <<"_">> \o minor]
             ELSE [matched |-> TRUE, name |-> ProtonPrefix \o major]

\* str::replace: every non-overlapping occurrence, left to right
RECURSIVE Replace(_, _, _)
Replace(cs, from, to) ==
    IF cs = <<>> THEN <<>>
    ELSE IF StartsWith(cs, from)
         THEN to \o Replace(SubSeq(cs, Len(from) + 1, Len(cs)), from, to)
         ELSE <<Head(cs)>> \o Replace(Tail(cs), from, to)

\* a post-processing that drops every underscore
Collapse_all(cs) == Replace(cs, <<"_">>, <<>>)

\* compat.rs:52-54: .replace("proton_", "proton-").replace("_", "")
\*                  .replace("proton-", "proton_")
Collapse(cs) ==
    Replace(Replace(Replace(cs, ProtonPrefix,
                            <<"p", "r", "o", "t", "o", "n", "-">>),
                    <<"_">>, <<>>),
            <<"p", "r", "o", "t", "o", "n", "-">>, ProtonPrefix)

\* compat.rs:32-63, the builtin arm of internal_name: the identifier derived
\* from the display name, and whether the fallback of lines 56-62 was taken
derived_name(cs) ==
    LET snake == to_snake_case(cs)
        caps  == Captures(snake)
    IN  [id    |-> IF caps.matched THEN Collapse(caps.name) ELSE snake,
         warns |-> ~caps.matched]

\* derived_name of every display name of the model
DerivedNames == [nm \in AllNames |-> derived_name(Chars(nm))]

\* internal_name that derives the identifier for every tool
internal_name_always_derived(tool) == DerivedNames[tool.name].id

\* internal_name that gives up when the pattern does not match
internal_name_strict(tool) ==
    IF tool.builtin
    THEN IF DerivedNames[tool.name].warns
         THEN <<>>
         ELSE DerivedNames[tool.name].id
    ELSE Chars(tool.name)

\* SteamCompat::internal_name
internal_name(tool) ==
    IF tool.builtin
    THEN DerivedNames[tool.name].id
    ELSE Chars(tool.name)

\* SteamCompat::internal_name, lines 58-60: the eprintln! of the fallback
internal_name_warns(tool) ==
    tool.builtin /\ DerivedNames[tool.name].warns

\* ---------------------------------------------------------------- main.rs
\* we_is_running that only looks for the 32-bit image
we_is_running_only32(p32, p64) == p32

\* we_is_running: pgrep wallpaper32.exe, and only if that is empty
\* pgrep wallpaper64.exe.
we_is_running(p32, p64) ==
    IF p32 THEN TRUE ELSE IF p64 THEN TRUE ELSE FALSE

\* WALLPAPER_ENGINE_PATH.join(format!("wallpaper{}.exe", arch)).exists()
exe_exists(arch, present) == arch \in present

\* a platform check that always succeeds
steam_is_running_always(up) == TRUE

\* steam_is_running: window_class_exists("steamwebhelper")
steam_is_running(up) == up

\* the decimal digits of a usize, as format!("{}", i) writes them
RECURSIVE Decimal(_)
Decimal(k) ==
    LET d == <<"0", "1", "2", "3", "4", "5", "6", "7", "8", "9">>[(k % 10) + 1]
    IN  IF k < 10 THEN <<d>> ELSE Decimal(k \div 10) \o <<d>>

\* a title without the index
Title_plain(k) == <<"W", "a", "l", "l", "p", "a", "p", "e", "r">>

\* main, line 291: format!("Wallpaper #{}", i)
Title(k) ==
    <<"W", "a", "l", "l", "p", "a", "p", "e", "r", " ", "#">> \o Decimal(k)

\* xdotool search --name <pattern>: the pattern occurs in the window name
Contains(hay, needle) ==
    \E k \in 0..(Len(hay) - Len(needle)) :
        SubSeq(hay, k + 1, k + Len(needle)) = needle

\* a window query that is satisfied by any window of the batch
window_title_exists_any(k, wins, xok) == xok /\ wins # {}

\* window_title_exists(title) for the title of item k, over the windows of
\* the batch (each named by the title its item was launched with);
\* a failed invocation of xdotool counts as "no window"
window_title_exists(k, wins, xok) ==
    xok /\ \E w \in wins : Contains(Title(w), Title(k))

\* a selection that always goes through the platform client
SteamOrProton_always_steam(running) == "applaunch"

\* a selection with the two arms swapped
SteamOrProton_swapped(running) == IF running THEN "applaunch" ELSE "proton_run"

\* SteamOrProton chosen at the call of start_wallpaper
SteamOrProton(running) == IF ~running THEN "applaunch" ELSE "proton_run"

\* an Err that is dropped instead of propagated (`let _ = ...`)
Fail_swallowed(kind, detail) ==
    /\ pc' = pc
    /\ UNCHANGED <<err, exitCode>>

\* a loop over the items that ends after its first iteration
NextItem_break(k, n) == "FinalStop"

\* a loop that leaves out the last item of a list of two or more
NextItem_skips_last(k, n) == IF k + 2 < n THEN "Preview" ELSE "FinalStop"

\* the for loop over wallpaper_ids.iter().enumerate(): after item k either
\* the body runs for the next item or the loop is left
NextItem(k, n) == IF k + 1 < n THEN "Preview" ELSE "FinalStop"

\* `?` on an Err in main: the error is printed, exit status 1.
Fail(kind, detail) ==
    /\ pc' = "Failed"
    /\ err' = [kind |-> kind, detail |-> detail]
    /\ exitCode' = 1

\* the LazyLock of a binary is forced at its first use: which(..).unwrap()
Located(bin) == bin \notin missing

\* unwrap/expect on an Err: panic, exit status 101.
Panic(detail) ==
    /\ pc' = "Failed"
    /\ err' = [kind |-> "panic", detail |-> detail]
    /\ exitCode' = 101

Init ==
    /\ args \in [proton_version : Names, arch : Archs, n : 0..MaxItems]
    /\ commonDirs \in SUBSET Names
    /\ dDirs \in SUBSET Names
    /\ missing = {}
    /\ exes \in SUBSET {"64", "32"}
    /\ sc = NoTool
    /\ steamUp \in BOOLEAN
    /\ we32 \in BOOLEAN
    /\ we64 \in BOOLEAN
    /\ windows = {}
    /\ pc = "Resolve"
    /\ i = 0
    /\ stopPolls = 0
    /\ envSet = FALSE
    /\ printed = <<>>
    /\ boundId = <<>>
    /\ diag = 0
    /\ trace = <<>>
    /\ err = NoErr
    /\ exitCode = -1

\* main, lines 220-226: resolve the tool or fail with its name.
Resolve ==
    /\ pc = "Resolve"
    /\ LET r == from_name(args.proton_version, commonDirs, dDirs)
       IN  IF r.some
           THEN /\ sc' = r
                /\ printed' = internal_name(r)
                /\ diag' = diag + (IF internal_name_warns(r) THEN 1 ELSE 0)
                /\ pc' = "CheckArch"
                /\ UNCHANGED <<err, exitCode>>
           ELSE /\ sc' = sc
                /\ UNCHANGED <<printed, diag>>
                /\ Fail("Proton folder not found", args.proton_version)
    /\ UNCHANGED <<cfgVars, boundId, extVars, i, stopPolls, envSet, trace>>

\* main, lines 228-232: the architecture selector is validated exactly.
CheckArch ==
    /\ pc = "CheckArch"
    /\ IF args.arch # "64" /\ args.arch # "32"
       THEN /\ pc' = "Failed"
            /\ err' = [kind |-> "arch must be 64 or 32", detail |-> args.arch]
            /\ exitCode' = 1
       ELSE /\ pc' = "CheckIds"
            /\ UNCHANGED <<err, exitCode>>
    /\ UNCHANGED <<cfgVars, idVars, extVars, sc, i, stopPolls, envSet, trace>>

\* main, lines 234-237: eprintln!("Error: no wallpapers provided"); return Ok(())
CheckIds ==
    /\ pc = "CheckIds"
    /\ IF args.n = 0
       THEN /\ pc' = "Exited"
            /\ err' = [kind |-> "no wallpapers provided", detail |-> ""]
            /\ exitCode' = 0
       ELSE /\ pc' = "AwaitingPlatform"
            /\ UNCHANGED <<err, exitCode>>
    /\ UNCHANGED <<cfgVars, idVars, extVars, sc, i, stopPolls, envSet, trace>>

\* main, lines 239-245: while !steam_is_running() { sleep(100 ms) }
\* (the poll of line 239 only decides whether the instruction to start the
\* client is printed).
AwaitingPlatform ==
    /\ pc = "AwaitingPlatform"
    /\ IF ~Located("xdotool")
       THEN Panic("which xdotool")
       ELSE /\ \E xok \in BOOLEAN :
                  IF steam_is_running(xok /\ steamUp)
                  THEN pc' = "CheckExe"
                  ELSE pc' = pc
            /\ UNCHANGED <<err, exitCode>>
    /\ UNCHANGED <<cfgVars, idVars, extVars, sc, i, stopPolls, envSet, trace>>

\* main, lines 255-260: the renderer executable of the selected architecture
\* must exist.
CheckExe ==
    /\ pc = "CheckExe"
    /\ IF ~exe_exists(args.arch, exes)
       THEN /\ pc' = "Failed"
            /\ err' = [kind |-> "Wallpaper Engine not found", detail |-> args.arch]
            /\ exitCode' = 1
       ELSE /\ pc' = "InitialStop"
            /\ UNCHANGED <<err, exitCode>>
    /\ UNCHANGED <<cfgVars, idVars, extVars, sc, i, stopPolls, envSet, trace>>

\* main without the stop of lines 262-273: straight to the binding
InitialStop_skipped ==
    /\ pc = "InitialStop"
    /\ pc' = "BindingCompatTool"
    /\ UNCHANGED <<cfgVars, idVars, extVars, sc, i, stopPolls, envSet, trace,
                   err, exitCode>>

\* main, lines 262-265: steam +app_stop 431960, `?` on the invocation.
InitialStop ==
    /\ pc = "InitialStop"
    /\ IF ~Located("steam")
       THEN Panic("which steam") /\ UNCHANGED trace
       ELSE \E ok \in BOOLEAN :
          /\ trace' = Append(trace, Cmd("app_stop", -1, ok))
          /\ IF ok
             THEN pc' = "StopLoop" /\ UNCHANGED <<err, exitCode>>
             ELSE Fail("exec", "steam +app_stop")
    /\ UNCHANGED <<cfgVars, idVars, extVars, sc, i, stopPolls, envSet>>

\* main, lines 267-273: while we_is_running() { steam +app_stop ?; sleep }
StopLoop ==
    /\ pc = "StopLoop"
    /\ \E pok \in BOOLEAN, ok \in BOOLEAN :
          LET det  == we_is_running(we32, we64)
              poll == Ev("pgrep", -1, det, pok)
          IN  IF ~Located("pgrep")
              THEN Panic("which pgrep") /\ UNCHANGED <<trace, stopPolls>>
              ELSE IF ~pok
              THEN /\ trace' = Append(trace, Ev("pgrep", -1, FALSE, FALSE))
                   /\ Panic("failed to execute pgrep")
                   /\ UNCHANGED stopPolls
              ELSE IF det
              THEN /\ stopPolls < MaxStopPolls
                   /\ stopPolls' = stopPolls + 1
                   /\ trace' = Append(Append(trace, poll), Cmd("app_stop", -1, ok))
                   /\ IF ok
                      THEN pc' = pc /\ UNCHANGED <<err, exitCode>>
                      ELSE Fail("exec", "steam +app_stop")
              ELSE /\ trace' = Append(trace, poll)
                   /\ pc' = "BindingCompatTool"
                   /\ UNCHANGED <<stopPolls, err, exitCode>>
    /\ UNCHANGED <<cfgVars, idVars, extVars, sc, i, envSet>>

\* main, line 275 and SteamCompat::apply_to_game:
\* steam +app_change_compat_tool 431960 <internal name>, `?` on the invocation.
BindingCompatTool ==
    /\ pc = "BindingCompatTool"
    /\ boundId' = internal_name(sc)
    /\ diag' = diag + (IF internal_name_warns(sc) THEN 1 ELSE 0)
    /\ \E ok \in BOOLEAN :
          /\ trace' = Append(trace, Cmd("app_change_compat_tool", -1, ok))
          /\ IF ok
             THEN pc' = "SetEnv" /\ UNCHANGED <<err, exitCode>>
             ELSE Fail("exec", "steam +app_change_compat_tool")
    /\ UNCHANGED <<cfgVars, printed, extVars, sc, i, stopPolls, envSet>>

\* main without the set_var calls of lines 278-288
SetEnv_skipped ==
    /\ pc = "SetEnv"
    /\ i' = 0
    /\ pc' = "Preview"
    /\ UNCHANGED <<cfgVars, idVars, extVars, sc, stopPolls, envSet, trace, err,
                   exitCode>>

\* main, lines 278-288: PROTON_DIR, STEAM_COMPAT_DATA_PATH,
\* STEAM_COMPAT_CLIENT_INSTALL_PATH; then the for loop starts at index 0.
SetEnv ==
    /\ pc = "SetEnv"
    /\ envSet' = TRUE
    /\ i' = 0
    /\ pc' = "Preview"
    /\ UNCHANGED <<cfgVars, idVars, extVars, sc, stopPolls, trace, err, exitCode>>

\* main, lines 291-299 and show_preview: chafa on preview.jpg (`?`), or
\* magick (expect) then chafa (`?`) on preview.gif, or nothing.
Preview ==
    /\ pc = "Preview"
    /\ \E kind \in {"jpg", "gif", "none"}, mok \in BOOLEAN, cok \in BOOLEAN :
          CASE kind = "gif" /\ ~Located("magick") -> Panic("which magick")
            [] kind = "gif" /\ Located("magick") /\ ~mok ->
                   Panic("failed to extract first frame of gif")
            [] kind = "gif" /\ Located("magick") /\ mok /\ ~Located("chafa") ->
                   Panic("which chafa")
            [] kind = "gif" /\ Located("magick") /\ mok /\ Located("chafa") /\ ~cok ->
                   Fail("exec", "chafa")
            [] kind = "jpg" /\ ~Located("chafa") -> Panic("which chafa")
            [] kind = "jpg" /\ Located("chafa") /\ ~cok -> Fail("exec", "chafa")
            [] OTHER -> pc' = "Launching" /\ UNCHANGED <<err, exitCode>>
    /\ UNCHANGED <<cfgVars, idVars, extVars, sc, i, stopPolls, envSet, trace>>

\* main, lines 301-310 and start_wallpaper: the path is chosen by one
\* we_is_running() poll, the spawn is unwrapped with expect.
Launching ==
    /\ pc = "Launching"
    /\ \E pok \in BOOLEAN, ok \in BOOLEAN :
          LET det  == we_is_running(we32, we64)
              poll == Ev("pgrep", i, det, pok)
          IN  IF ~Located("pgrep")
              THEN Panic("which pgrep") /\ UNCHANGED trace
              ELSE IF ~pok
              THEN /\ trace' = Append(trace, Ev("pgrep", i, FALSE, FALSE))
                   /\ Panic("failed to execute pgrep")
              ELSE /\ trace' = Append(Append(trace, poll),
                                      Cmd(SteamOrProton(det), i, ok))
                   /\ IF ok
                      THEN pc' = "AwaitingWindow" /\ UNCHANGED <<err, exitCode>>
                      ELSE Panic("failed to run proton Wallpaper Engine")
    /\ UNCHANGED <<cfgVars, idVars, extVars, sc, i, stopPolls, envSet>>

\* main, line 312 and wait_for_window: poll every 100 ms, no bound.
AwaitingWindow ==
    /\ pc = "AwaitingWindow"
    /\ \E xok \in BOOLEAN :
          IF window_title_exists(i, windows, xok)
          THEN /\ trace' = Append(trace, Cmd("window_found", i, TRUE))
               /\ i' = i + 1
               /\ pc' = NextItem(i, args.n)
          ELSE UNCHANGED <<trace, i, pc>>
    /\ UNCHANGED <<cfgVars, idVars, extVars, sc, stopPolls, envSet, err, exitCode>>

\* main, lines 316-323: proton run <exe> -nobrowse -control stop, spawned
\* and not waited for; then Ok(()).
FinalStop ==
    /\ pc = "FinalStop"
    /\ \E ok \in BOOLEAN :
          /\ trace' = Append(trace, Cmd("control_stop", -1, ok))
          /\ IF ok
             THEN pc' = "Done" /\ exitCode' = 0 /\ UNCHANGED err
             ELSE Panic("failed to run proton Wallpaper Engine")
    /\ UNCHANGED <<cfgVars, idVars, extVars, sc, i, stopPolls, envSet>>

\* ------------------------------------------------------ the outside world
Running == exitCode = -1

\* item k has been spawned
Launched(k) ==
    \E p \in 1..Len(trace) :
        /\ trace[p].op \in {"applaunch", "proton_run"}
        /\ trace[p].item = k
        /\ trace[p].ok

\* the user starts or quits the platform client
SteamChanges ==
    /\ Running
    /\ pc \in {"Resolve", "CheckArch", "CheckIds", "AwaitingPlatform"}
    /\ steamUp' = ~steamUp
    /\ UNCHANGED <<cfgVars, idVars, sc, we32, we64, windows, pc, i, stopPolls,
                   envSet, trace, err, exitCode>>

\* a renderer process of either architecture starts or exits
RendererChanges ==
    /\ Running
    /\ \/ we32' = ~we32 /\ we64' = we64
       \/ we64' = ~we64 /\ we32' = we32
    /\ UNCHANGED <<cfgVars, idVars, sc, steamUp, windows, pc, i, stopPolls,
                   envSet, trace, err, exitCode>>

\* the window of a launched item appears, or an existing one is closed
WindowChanges ==
    /\ Running
    /\ \E k \in 0..(MaxItems - 1) :
          \/ Launched(k) /\ k \notin windows /\ windows' = windows \cup {k}
          \/ k \in windows /\ windows' = windows \ {k}
    /\ UNCHANGED <<cfgVars, idVars, sc, steamUp, we32, we64, pc, i, stopPolls,
                   envSet, trace, err, exitCode>>

Next ==
    \/ Resolve
    \/ CheckArch
    \/ CheckIds
    \/ AwaitingPlatform
    \/ CheckExe
    \/ InitialStop
    \/ StopLoop
    \/ BindingCompatTool
    \/ SetEnv
    \/ Preview
    \/ Launching
    \/ AwaitingWindow
    \/ FinalStop
    \/ SteamChanges
    \/ RendererChanges
    \/ WindowChanges

Spec == Init /\ [][Next]_vars

\* main is a running process: whenever it can take a step that changes its
\* state it eventually does.  Nothing is assumed of the outside world.
MainStep ==
    \/ Resolve \/ CheckArch \/ CheckIds \/ AwaitingPlatform \/ CheckExe
    \/ InitialStop \/ StopLoop \/ BindingCompatTool \/ SetEnv \/ Preview
    \/ Launching \/ AwaitingWindow \/ FinalStop

FairSpec == Spec /\ WF_vars(MainStep)

\* Runs of one valid configuration on systems where any of the external
\* binaries may be absent from the system path.
PathInit ==
    /\ args \in [proton_version : {"Proton 10.0"}, arch : {"64"}, n : 1..MaxItems]
    /\ commonDirs = {"Proton 10.0"}
    /\ dDirs = {}
    /\ missing \in SUBSET Bins
    /\ exes = {"64", "32"}
    /\ sc = NoTool
    /\ steamUp \in BOOLEAN
    /\ we32 \in BOOLEAN
    /\ we64 \in BOOLEAN
    /\ windows = {}
    /\ pc = "Resolve"
    /\ i = 0
    /\ stopPolls = 0
    /\ envSet = FALSE
    /\ printed = <<>>
    /\ boundId = <<>>
    /\ diag = 0
    /\ trace = <<>>
    /\ err = NoErr
    /\ exitCode = -1

PathSpec == PathInit /\ [][Next]_vars

\* Runs of one item for every display name, installed under either, both or
\* none of the two directories.
NameInit ==
    /\ args \in [proton_version : AllNames, arch : {"64"}, n : {1}]
    /\ commonDirs \in {{}, {args.proton_version}}
    /\ dDirs \in {{}, {args.proton_version}}
    /\ missing = {}
    /\ exes = {"64", "32"}
    /\ sc = NoTool
    /\ steamUp \in BOOLEAN
    /\ we32 \in BOOLEAN
    /\ we64 \in BOOLEAN
    /\ windows = {}
    /\ pc = "Resolve"
    /\ i = 0
    /\ stopPolls = 0
    /\ envSet = FALSE
    /\ printed = <<>>
    /\ boundId = <<>>
    /\ diag = 0
    /\ trace = <<>>
    /\ err = NoErr
    /\ exitCode = -1

NameSpec == NameInit /\ [][Next]_vars

\* ------------------------------------------------------------ properties
Pos == 1..Len(trace)
LaunchOps == {"applaunch", "proton_run"}
Launches == {p \in Pos : trace[p].op \in LaunchOps}
At(op) == {p \in Pos : trace[p].op = op}
Sent(op) == {p \in Pos : trace[p].op = op /\ trace[p].ok}
LoopPolls == {p \in Pos : trace[p].op = "pgrep" /\ trace[p].item = -1}
AfterStopLoop ==
    pc \in {"BindingCompatTool", "SetEnv", "Preview", "Launching",
            "AwaitingWindow", "FinalStop", "Done"}
Finished == exitCode # -1

\* C1 (as stated): item 0 is launched with steam -applaunch and every item
\* of index >= 1 with proton run, whatever the renderer does between polls.
C1_IndexDecidesPath ==
    \A p \in Launches : (trace[p].op = "applaunch") <=> (trace[p].item = 0)

\* C1 (amended): every launch directly follows a we_is_running poll for the
\* same item, and it is steam -applaunch exactly when that poll found no
\* renderer and proton run exactly when it found one.
C1_PollDecidesPath ==
    \A p \in Launches :
        /\ p > 1
        /\ trace[p - 1].op = "pgrep"
        /\ trace[p - 1].ok
        /\ trace[p - 1].item = trace[p].item
        /\ (trace[p].op = "applaunch") <=> ~trace[p - 1].det

\* an item after the first launched through the platform client, and the
\* first item launched through the runtime
C1_Witness ==
    /\ \E p \in Launches : trace[p].op = "applaunch" /\ trace[p].item = 1
    /\ \E p \in Launches : trace[p].op = "proton_run" /\ trace[p].item = 0

\* C2 (as stated): a batch processed to completion has issued
\* steam -applaunch exactly once, whatever the renderer did.
C2_OnePlatformLaunch ==
    pc = "Done" => Cardinality(Sent("applaunch")) = 1

\* C2 (amended): a batch processed to completion has issued steam -applaunch
\* once per item whose pre-launch poll found no renderer; that is exactly once
\* when the poll of item 0 found none and the poll of every later item found
\* one.
C2_PlatformLaunchPerAbsentPoll ==
    pc = "Done" =>
        LET absent == {p \in Pos : /\ trace[p].op = "pgrep"
                                   /\ trace[p].item >= 0
                                   /\ ~trace[p].det}
            first  == {p \in absent : trace[p].item = 0}
        IN  /\ Cardinality(Sent("applaunch")) = Cardinality(absent)
            /\ Cardinality(Sent("applaunch")) + Cardinality(Sent("proton_run"))
                   = args.n
            /\ (absent = first /\ first # {})
                   => Cardinality(Sent("applaunch")) = 1

\* a completed batch of two items with one platform launch
C2_Witness ==
    /\ pc = "Done"
    /\ args.n = 2
    /\ Cardinality(Sent("applaunch")) = 1
    /\ Cardinality(Sent("proton_run")) = 1

\* what the trace shows of the stop loop
StopLoopShape ==
    /\ \A p \in LoopPolls :
           IF trace[p].ok /\ trace[p].det
           THEN \* a poll that found the renderer is followed by one stop
                /\ p < Len(trace)
                /\ trace[p + 1].op = "app_stop"
                /\ (p + 1 < Len(trace)) => trace[p + 2].op = "pgrep"
                                           /\ trace[p + 2].item = -1
           ELSE \* a poll that found none ends the loop
                /\ \A q \in LoopPolls : q <= p
                /\ \A q \in At("app_stop") : q < p
    /\ \A q \in At("app_stop") :
           q = 1 \/ (trace[q - 1].op = "pgrep" /\ trace[q - 1].det)
    /\ AfterStopLoop =>
           /\ Cardinality(LoopPolls) = stopPolls + 1
           /\ Cardinality(Sent("app_stop")) = stopPolls + 1
           /\ \A p \in LoopPolls : trace[p].det <=> (p < 2 * stopPolls + 2)

\* C3: after the initial stop, N polls that report the renderer running and
\* then one that reports it absent end the loop at poll N+1 with the stop
\* command re-issued once per running poll and never for the absent one; a
\* poll reports running exactly when a 32-bit or a 64-bit image exists.
C3_StopLoop ==
    /\ []StopLoopShape
    /\ [][ /\ (stopPolls' = stopPolls + 1) => (we32 \/ we64)
           /\ (pc = "StopLoop" /\ pc' = "BindingCompatTool") => ~(we32 \/ we64)
         ]_vars

\* the loop was left after two polls that found the renderer
C3_Witness ==
    /\ AfterStopLoop
    /\ stopPolls >= 2
    /\ Cardinality(Sent("app_stop")) = stopPolls + 1

\* C4: the wait for an item's window does not block forever: main always
\* leaves AwaitingWindow again (with a timeout error if the window query
\* never succeeds).
C4_BoundedWait == []<>(pc # "AwaitingWindow")

\* what the trace shows of the item loop
ItemOrder ==
    /\ \A p \in Launches :
           /\ trace[p].item = Cardinality({q \in Launches : q < p})
           /\ trace[p].item >= 1 =>
                  \E q \in At("window_found") :
                      q < p /\ trace[q].item = trace[p].item - 1
    /\ \A q \in At("window_found") :
           \E p \in Launches : p < q /\ trace[p].ok /\ trace[p].item = trace[q].item
    /\ Cardinality(Launches) - Cardinality(At("window_found")) \in {0, 1}
    /\ Cardinality(At("window_found")) = i

\* C5: items are launched in list order, the launch of item i+1 comes after
\* the window query for item i succeeded (main moves to the next index only
\* while the window of the current one exists), and at most one item is
\* between its launch and its window confirmation.
C5_Sequential ==
    /\ []ItemOrder
    /\ [][ (i' # i) => (i' = i + 1 /\ pc = "AwaitingWindow" /\ i \in windows) ]_vars

\* the second item launched after the first one's window was found
C5_Witness ==
    /\ \E p \in Launches : trace[p].item = 1 /\ trace[p].ok
    /\ pc = "AwaitingWindow"
    /\ i = 1

\* C6: at most one `-nobrowse -control stop` is ever sent; it directly
\* follows the detection of the last item's window, nothing is invoked or
\* polled after it, and a batch that reaches Done has sent exactly one.
C6_FinalStop ==
    /\ Cardinality(At("control_stop")) <= 1
    /\ \A p \in At("control_stop") :
           /\ p = Len(trace)
           /\ p > 1
           /\ trace[p - 1].op = "window_found"
           /\ trace[p - 1].item = args.n - 1
           /\ \A k \in 0..(args.n - 1) :
                  \E q \in At("window_found") : trace[q].item = k
           /\ trace[p].ok <=> pc = "Done"
    /\ pc = "Done" =>
           /\ args.n > 0
           /\ Cardinality(Sent("control_stop")) = 1
           /\ exitCode = 0

\* a batch of two items that reached Done
C6_Witness ==
    /\ pc = "Done"
    /\ args.n = 2
    /\ trace[Len(trace)].op = "control_stop"

\* C7: once resolved, a name present under compatibilitytools.d (alone or
\* also under common) gives a non-builtin tool at the user path, a name
\* present only under common gives a builtin tool at the vendor path, and a
\* name present in neither gives no tool.
C7_ResolvePolicy ==
    pc # "Resolve" =>
        LET name == args.proton_version
            c    == name \in commonDirs
            u    == name \in dDirs
        IN  /\ u => /\ sc.some
                    /\ ~sc.builtin
                    /\ sc.path = <<"compatibilitytools.d", name>>
                    /\ sc.name = name
            /\ (c /\ ~u) => /\ sc.some
                            /\ sc.builtin
                            /\ sc.path = <<"common", name>>
                            /\ sc.name = name
            /\ (~c /\ ~u) => ~sc.some

\* a name present in both directories was resolved
C7_Witness ==
    /\ pc # "Resolve"
    /\ args.proton_version \in commonDirs \cap dDirs
    /\ sc.some
    /\ ~sc.builtin

\* C8: a tool name absent from both directories ends the run with the error
\* that carries the name and a non-zero exit status, before any external
\* command was issued.
C8_NotFoundFatal ==
    (pc # "Resolve" /\ args.proton_version \notin (commonDirs \cup dDirs)) =>
        /\ pc = "Failed"
        /\ exitCode \notin {-1, 0}
        /\ err = [kind |-> "Proton folder not found",
                  detail |-> args.proton_version]
        /\ trace = <<>>
        /\ ~envSet

\* the run ended on an unknown tool name although another tool is installed
C8_Witness ==
    /\ pc = "Failed"
    /\ err.kind = "Proton folder not found"
    /\ commonDirs \cup dDirs # {}

\* C9: a run with an empty wallpaper list ends with a reported error and a
\* non-zero exit status.
C9_EmptyListFails ==
    (args.n = 0 /\ Finished) => (err # NoErr /\ exitCode # 0)

\* C10: a failed invocation of the stop command, of the binding or of a
\* launch is the last thing main does: the run has ended with a non-zero
\* status, and no launch, binding or stop follows the failure.
C10_FailureAborts ==
    \A p \in Pos :
        (/\ trace[p].op \in {"app_stop", "app_change_compat_tool",
                             "applaunch", "proton_run"}
         /\ ~trace[p].ok)
        => /\ p = Len(trace)
           /\ pc = "Failed"
           /\ exitCode \notin {-1, 0}
           /\ At("control_stop") = {}

\* the spawn of the second item failed after the first was launched
C10_Witness ==
    /\ pc = "Failed"
    /\ Len(trace) > 0
    /\ trace[Len(trace)].op \in LaunchOps
    /\ trace[Len(trace)].item = 1
    /\ ~trace[Len(trace)].ok
    /\ \E p \in Launches : trace[p].item = 0 /\ trace[p].ok

\* commands that change something outside main
SideEffectOps == {"app_stop", "app_change_compat_tool", "applaunch",
                  "proton_run", "control_stop"}
SideEffects == {p \in Pos : trace[p].op \in SideEffectOps}

\* C11: when a required binary (steam, pgrep, xdotool, chafa, magick) is not
\* on the system path the run fails at startup: no stop, binding or launch
\* command is ever issued, and the run does not end successfully.
C11_MissingBinaryFailsAtStartup ==
    missing # {} =>
        /\ SideEffects = {}
        /\ pc # "Done"

BindIssued == At("app_change_compat_tool") # {}
Underscores(cs) == Cardinality({k \in 1..Len(cs) : cs[k] = "_"})

\* C12: for a tool that is not vendor-builtin the internal name is the
\* display name, character for character, without a diagnostic, and that is
\* the identifier passed to +app_change_compat_tool.
C12_UserToolNameVerbatim ==
    (sc.some /\ ~sc.builtin) =>
        /\ printed = Chars(args.proton_version)
        /\ diag = 0
        /\ BindIssued => boundId = Chars(args.proton_version)
        /\ (args.proton_version = "GE-Proton7-55" /\ BindIssued) =>
               boundId =
                      <<"G", "E", "-", "P", "r", "o",
                        "t", "o", "n", "7", "-", "5", "5">>
        /\ (args.proton_version = "Proton 10.0" /\ BindIssued) =>
               boundId =
                      <<"P", "r", "o", "t", "o", "n", " ", "1", "0", ".", "0">>

\* a user-installed tool was bound under its folder name
C12_Witness ==
    /\ sc.some
    /\ ~sc.builtin
    /\ args.proton_version = "GE-Proton7-55"
    /\ Sent("app_change_compat_tool") # {}
    /\ boundId = Chars("GE-Proton7-55")

\* C13: for vendor-builtin tools "Proton 10.0" gives proton_10,
\* "Proton 9.0 (Beta)" proton_9, "Proton 4.11" proton_411 and
\* "Proton Experimental" proton_experimental: the only underscore left is
\* the one after the prefix proton; the same identifier is the one bound.
C13_VendorNames ==
    (sc.some /\ sc.builtin) =>
        /\ args.proton_version = "Proton 10.0" => printed =
                      <<"p", "r", "o", "t", "o", "n", "_", "1", "0">>
        /\ args.proton_version = "Proton 9.0 (Beta)" => printed =
                      <<"p", "r", "o", "t", "o", "n", "_", "9">>
        /\ args.proton_version = "Proton 4.11" => printed =
                      <<"p", "r", "o", "t", "o", "n", "_", "4", "1", "1">>
        /\ args.proton_version = "Proton Experimental" => printed =
                      <<"p", "r", "o", "t", "o", "n", "_", "e", "x",
                        "p", "e", "r", "i", "m", "e", "n", "t", "a", "l">>
        /\ StartsWith(to_snake_case(Chars(args.proton_version)), ProtonPrefix) =>
              /\ StartsWith(printed, ProtonPrefix)
              /\ Underscores(printed) = 1
              /\ diag = 0
        /\ BindIssued => boundId = printed

\* the vendor's Proton 4.11 was bound as proton_411
C13_Witness ==
    /\ sc.some
    /\ sc.builtin
    /\ args.proton_version = "Proton 4.11"
    /\ Sent("app_change_compat_tool") # {}
    /\ boundId =
                      <<"p", "r", "o", "t", "o", "n", "_", "4", "1", "1">>

\* C14: for a vendor-builtin tool whose snake-cased name does not match the
\* pattern, internal_name returns the snake-cased text and writes the
\* diagnostic each time it is called; resolution goes on to the next step
\* and the binding, once issued, passes that text.
C14_FallbackStep ==
    (pc = "Resolve" /\ pc' # pc /\ sc'.some /\ internal_name_warns(sc')) =>
        /\ pc' = "CheckArch"
        /\ exitCode' = -1
        /\ diag' = 1

C14_FallbackState ==
    (sc.some /\ sc.builtin) =>
        /\ args.proton_version = "SteamLinuxRuntime" =>
              /\ printed =
                      <<"s", "t", "e", "a", "m", "_", "l", "i", "n",
                        "u", "x", "_", "r", "u", "n", "t", "i", "m", "e">>
              /\ diag >= 1
        /\ args.proton_version = "GE-Proton7-55" =>
              /\ printed =
                      <<"g", "e", "_", "p", "r", "o",
                        "t", "o", "n", "7", "_", "5", "5">>
              /\ diag >= 1
        /\ internal_name_warns(sc) =>
              /\ printed = to_snake_case(Chars(args.proton_version))
              /\ diag = IF BindIssued THEN 2 ELSE 1
              /\ BindIssued => boundId = printed
              /\ pc = "Failed" => err.kind \in {"arch must be 64 or 32",
                                               "Wallpaper Engine not found",
                                               "exec", "panic"}
        /\ ~internal_name_warns(sc) => diag = 0

C14_FallbackContinues ==
    /\ []C14_FallbackState
    /\ [][C14_FallbackStep]_vars

\* an unrecognised vendor folder was bound under its snake-cased name
C14_Witness ==
    /\ sc.some
    /\ sc.builtin
    /\ args.proton_version = "SteamLinuxRuntime"
    /\ Sent("app_change_compat_tool") # {}
    /\ boundId =
                      <<"s", "t", "e", "a", "m", "_", "l", "i", "n",
                        "u", "x", "_", "r", "u", "n", "t", "i", "m", "e">>
    /\ diag = 2

\* the states of the orchestrator as the design names them
Phase(p) ==
    CASE p \in {"Resolve", "CheckArch", "CheckIds"} -> 0
      [] p = "AwaitingPlatform" -> 1
      [] p \in {"CheckExe", "InitialStop", "StopLoop"} -> 2
      [] p \in {"BindingCompatTool", "SetEnv"} -> 3
      [] p \in {"Preview", "Launching", "AwaitingWindow"} -> 4
      [] p = "FinalStop" -> 5
      [] p = "Done" -> 6
      [] OTHER -> 7

\* C15 (as stated): the binding command is issued before the first stop
\* command of StoppingPriorInstance.
C15_BindBeforeStop ==
    \A p \in At("app_stop") :
        \E q \in At("app_change_compat_tool") : q < p

\* what the trace shows of the order of the commands
CommandOrder ==
    /\ trace # <<>> => trace[1].op = "app_stop"
    /\ \A q \in At("app_change_compat_tool") :
          /\ q > 2
          /\ trace[1].ok
          /\ trace[q - 1].op = "pgrep" /\ trace[q - 1].item = -1
          /\ ~trace[q - 1].det
          /\ \A p \in At("app_stop") \cup LoopPolls : p < q
          /\ \A p \in Launches \cup At("control_stop") : q < p
    /\ \A p \in Launches : \E q \in Sent("app_change_compat_tool") : q < p
    /\ \A p \in At("control_stop") : \A q \in Launches : q < p
    /\ Phase(pc) <= 2 => ~BindIssued
    /\ Phase(pc) <= 1 => trace = <<>>
    /\ Phase(pc) <= 3 => Launches = {}

\* C15 (amended): the states are visited in the order AwaitingPlatform,
\* StoppingPriorInstance, BindingCompatTool, per-item Launching and
\* AwaitingWindow, FinalStop, Done: the first stop command comes after the
\* platform was detected, the binding command after the stop loop has ended
\* and before the first launch.
C15_StateOrder ==
    /\ []CommandOrder
    /\ [][ (Phase(pc') # Phase(pc)) =>
              \/ Phase(pc') = Phase(pc) + 1
              \/ pc' \in {"Failed", "Exited"} ]_vars

\* the batch is complete after a stop loop that had to repeat the stop
C15_Witness ==
    /\ pc = "FinalStop"
    /\ stopPolls >= 1
    /\ Sent("app_change_compat_tool") # {}

\* C16: nothing is invoked before a poll has found the platform client:
\* main leaves AwaitingPlatform only on a poll that sees the client, and
\* until then it has issued no platform command and no runtime invocation.
C16_PlatformGate ==
    /\ [](Phase(pc) <= 1 => (trace = <<>> /\ boundId = <<>> /\ ~envSet))
    /\ [][ (pc = "AwaitingPlatform") =>
              /\ pc' # pc => (steamUp /\ pc' = "CheckExe")
              /\ trace' = <<>> ]_vars

\* main is held at the gate while the client is not running
C16_Witness ==
    /\ pc = "AwaitingPlatform"
    /\ ~steamUp
    /\ trace = <<>>

\* C17: an architecture other than "64" and "32", or a missing renderer
\* executable of the selected architecture, ends the run with a reported
\* error and a non-zero exit status, with no stop, binding or launch issued.
C17_ConfigErrorsFail ==
    (Finished /\ (args.arch \notin {"64", "32"} \/ args.arch \notin exes)) =>
        /\ exitCode # 0
        /\ err # NoErr
        /\ SideEffects = {}

\* C18: the binding command is issued at most once, and once main is past
\* it exactly one has been issued successfully; every launch comes after it
\* and after the three environment variables were set.
C18_BindOnceBeforeLaunch ==
    /\ Cardinality(At("app_change_compat_tool")) <= 1
    /\ Phase(pc) \in 4..6 =>
          /\ Cardinality(Sent("app_change_compat_tool")) = 1
          /\ envSet
    /\ pc = "SetEnv" => Cardinality(Sent("app_change_compat_tool")) = 1
    /\ Launches # {} =>
          /\ envSet
          /\ \E q \in Sent("app_change_compat_tool") : \A p \in Launches : q < p

\* the second item was launched under the one binding
C18_Witness ==
    /\ \E p \in Launches : trace[p].item = 1
    /\ Cardinality(Sent("app_change_compat_tool")) = 1
    /\ envSet

\* the titles of the batch, by index
TitlesApart ==
    \A a \in 0..MaxIndex : \A b \in 0..MaxIndex :
        /\ a # b => Title(a) # Title(b)
        /\ b < a => ~Contains(Title(b), Title(a))

WaitNotSatisfiedByOthers ==
    /\ TitlesApart
    /\ \A w \in windows : Launched(w) /\ w <= i
    /\ pc = "AwaitingWindow" =>
          /\ \A w \in windows \ {i} : ~window_title_exists(i, {w}, TRUE)
          /\ i \notin windows => ~window_title_exists(i, windows, TRUE)

\* C19: the titles "Wallpaper #i" are pairwise distinct and none contains
\* the title of a later item, the windows of the batch are those of items
\* launched so far, and so the wait for item i is not satisfied by the
\* window of another item: main stays in the wait while the window of item
\* i itself does not exist.
C19_OwnWindowOnly ==
    /\ []WaitNotSatisfiedByOthers
    /\ [][ (pc = "AwaitingWindow" /\ i \notin windows) =>
              (pc' = pc /\ i' = i /\ trace' = trace) ]_vars

\* main waits for item 1 while only the window of item 0 exists (a later
\* title can contain an earlier one: "Wallpaper #10" contains "Wallpaper #1")
C19_Witness ==
    /\ pc = "AwaitingWindow"
    /\ i = 1
    /\ windows = {0}
    /\ Contains(Title(10), Title(1))

\* a configuration that passes every check of main, on a system where every
\* external binary is on the path
ValidConfig ==
    /\ from_name(args.proton_version, commonDirs, dDirs).some
    /\ args.arch \in {"64", "32"}
    /\ args.n > 0
    /\ exe_exists(args.arch, exes)
    /\ missing = {}

\* an external command could not be invoked, or did not succeed
CommandFailed == pc = "Failed" /\ err.kind \in {"exec", "panic"}

\* what the outside world is asked to do
Cooperative ==
    /\ <>[](pc = "AwaitingPlatform" => steamUp)
    /\ <>[](pc = "StopLoop" => ~we_is_running(we32, we64))
    /\ <>[](pc = "AwaitingWindow" => i \in windows)
    /\ []~CommandFailed

\* every item launched exactly once, in order, then the final stop
AllLaunchedThenStopped ==
    /\ pc = "Done"
    /\ exitCode = 0
    /\ Cardinality(Launches) = args.n
    /\ \A k \in 0..(args.n - 1) :
           Cardinality({p \in Launches : trace[p].item = k /\ trace[p].ok}) = 1
    /\ \A p \in Launches : \A q \in Launches :
           p < q => trace[p].item < trace[q].item
    /\ Cardinality(Sent("control_stop")) = 1
    /\ trace[Len(trace)].op = "control_stop"
    /\ \A p \in Launches : p < Len(trace)

\* C20: with a valid configuration and a non-empty item list, if from some
\* point on the platform client is up whenever main waits for it, the
\* renderer is absent whenever main polls for it in the stop loop, the
\* window of the awaited item exists whenever main waits for it, and no
\* command fails, then main eventually reaches Done having launched every
\* item exactly once in index order and having sent the final stop last.
C20_EventuallyDone ==
    (ValidConfig /\ Cooperative) => <>AllLaunchedThenStopped

\* a finished run of two items that needed a repeated stop command first
C20_Witness ==
    /\ ValidConfig
    /\ AllLaunchedThenStopped
    /\ args.n >= 2
    /\ stopPolls >= 1
====
